---- MODULE Spec2Model ----
(***************************************************************************)
(* Model of the ICU-Causal-ML-Evaluation scenario scripts:                 *)
(*   notebooks/scenario_B_iptw_calculation.py      (calculate_iptw_weights)*)
(*   notebooks/scenario_C_calibration_evaluation.py                        *)
(*                                          (analyze_calibration_metrics)  *)
(*   Scenario A (LOCF / TSLO), described in the README text only.          *)
(*                                                                         *)
(* Python floats are IEEE-754 binary64.  They are modelled bit-exactly: a  *)
(* finite non-zero double is sign, exponent and a 53-bit significand kept  *)
(* as a sequence of bits (most significant first), value = m * 2^e.        *)
(* Exponents stay far inside the binary64 range for every value the        *)
(* scenarios produce, so subnormals and overflow are not modelled.         *)
(***************************************************************************)
EXTENDS Integers, Sequences, FiniteSets, TLC

(***************************************************************************)
(* Unsigned big numbers as bit sequences, most significant bit first.      *)
(***************************************************************************)
MantBits == 53

\* the one element of a one-element set.  The({F(v) : v \in {e}}) works e
\* out once and names the result v in F, however often F mentions v.
The(S) == CHOOSE x \in S : TRUE

Zeros(n) == [i \in 1..n |-> 0]

StripZeros(bits) ==
    The({IF \A i \in 1..Len(b) : b[i] = 0 THEN <<>>
         ELSE SubSeq(b, CHOOSE i \in 1..Len(b) : b[i] = 1 /\ \A j \in 1..(i - 1) : b[j] = 0,
                     Len(b))
         : b \in {bits}})

PadLeft(b, n) == Zeros(n - Len(b)) \o b

RECURSIVE IntBits(_)
IntBits(n) == IF n = 0 THEN <<>> ELSE Append(IntBits(n \div 2), n % 2)

\* recursions over a bit range split the range in two and finish the half
\* the other depends on before they start the other, so that their depth is
\* logarithmic in the number of bits
RECURSIVE BitsIntRange(_, _, _)
BitsIntRange(b, lo, hi) ==
    IF lo > hi THEN 0
    ELSE IF lo = hi THEN b[lo]
    ELSE BitsIntRange(b, lo, (lo + hi) \div 2) * 2^(hi - (lo + hi) \div 2)
             + BitsIntRange(b, (lo + hi) \div 2 + 1, hi)

BitsInt(bits) == The({BitsIntRange(b, 1, Len(b)) : b \in {bits}})

\* a + b + c over the bit positions lo..hi (hi the least significant)
RECURSIVE BAddRange(_, _, _, _, _)
BAddRange(a, b, lo, hi, c) ==
    IF lo = hi
    THEN [bits |-> <<(a[lo] + b[lo] + c) % 2>>, c |-> (a[lo] + b[lo] + c) \div 2]
    ELSE The({The({[bits |-> addL.bits \o addR.bits, c |-> addL.c]
                   : addL \in {BAddRange(a, b, lo, (lo + hi) \div 2, addR.c)}})
              : addR \in {BAddRange(a, b, (lo + hi) \div 2 + 1, hi, c)}})

\* a + b for equal lengths n; the result has n + 1 bits
BAdd(x, y) ==
    The({IF Len(a) = 0 THEN <<0>>
         ELSE The({<<sum.c>> \o sum.bits : sum \in {BAddRange(a, b, 1, Len(a), 0)}})
         : a \in {x}, b \in {y}})

\* a - b - c over the bit positions lo..hi, c the borrow
RECURSIVE BSubRange(_, _, _, _, _)
BSubRange(a, b, lo, hi, c) ==
    IF lo = hi
    THEN [bits |-> <<(a[lo] - b[lo] - c + 2) % 2>>,
          c |-> IF a[lo] - b[lo] - c < 0 THEN 1 ELSE 0]
    ELSE The({The({[bits |-> subL.bits \o subR.bits, c |-> subL.c]
                   : subL \in {BSubRange(a, b, lo, (lo + hi) \div 2, subR.c)}})
              : subR \in {BSubRange(a, b, (lo + hi) \div 2 + 1, hi, c)}})

\* a - b for equal lengths n and a >= b; the result has n bits
BSub(x, y) ==
    The({IF Len(a) = 0 THEN <<>> ELSE BSubRange(a, b, 1, Len(a), 0).bits
         : a \in {x}, b \in {y}})

\* a < b for equal lengths
BLess(x, y) ==
    The({\E i \in 1..Len(a) : a[i] < b[i] /\ \A j \in 1..(i - 1) : a[j] = b[j]
         : a \in {x}, b \in {y}})

\* a * b, as shifted copies of a added up for every set bit lo..hi of b
RECURSIVE BMulRange(_, _, _, _, _)
BMulRange(a, b, lo, hi, acc) ==
    IF lo = hi
    THEN IF b[lo] = 1
         THEN Tail(BAdd(acc, PadLeft(a \o Zeros(Len(b) - lo), Len(a) + Len(b))))
         ELSE acc
    ELSE The({BMulRange(a, b, (lo + hi) \div 2 + 1, hi, mulLeft)
              : mulLeft \in {BMulRange(a, b, lo, (lo + hi) \div 2, acc)}})

BMul(x, y) ==
    The({BMulRange(a, b, 1, Len(b), acc)
         : a \in {x}, b \in {y}, acc \in {Zeros(Len(x) + Len(y))}})

\* long division over the numerator bits lo..hi: st.rem is the running
\* remainder in Len(d) bits (d padded by one leading zero), st.q the quotient
RECURSIVE BDivRange(_, _, _, _, _)
BDivRange(num, d, lo, hi, st) ==
    IF lo = hi
    THEN The({IF BLess(r2, d)
              THEN [rem |-> r2, q |-> Append(st.q, 0)]
              ELSE [rem |-> BSub(r2, d), q |-> Append(st.q, 1)]
              : r2 \in {Append(Tail(st.rem), num[lo])}})
    ELSE The({BDivRange(num, d, (lo + hi) \div 2 + 1, hi, divLeft)
              : divLeft \in {BDivRange(num, d, lo, (lo + hi) \div 2, st)}})

\* floor(num / d) and whether a remainder is left
BDiv(x, y) ==
    The({The({[q |-> st.q, sticky |-> \E k \in 1..Len(st.rem) : st.rem[k] = 1]
              : st \in {BDivRange(num, d, 1, Len(num), st0)}})
         : num \in {x}, d \in {PadLeft(y, Len(y) + 1)},
           st0 \in {[rem |-> Zeros(Len(y) + 1), q |-> <<>>]}})

(***************************************************************************)
(* binary64 values and the arithmetic numpy / CPython perform on them      *)
(* (round to nearest, ties to even).                                       *)
(***************************************************************************)
FZero(s) == [cls |-> "zero", sgn |-> s, e |-> 0, m |-> <<>>]
FInf(s) == [cls |-> "inf", sgn |-> s, e |-> 0, m |-> <<>>]
FNaN == [cls |-> "nan", sgn |-> 0, e |-> 0, m |-> <<>>]
FFin(s, e, m) == [cls |-> "fin", sgn |-> s, e |-> e, m |-> m]

\* b, more than MantBits bits without leading zeros, cut to MantBits bits
\* and rounded to nearest, ties to even
FRoundCut(s, b, e, sticky) ==
    LET n == Len(b)
        top == SubSeq(b, 1, MantBits)
        guard == b[MantBits + 1]
        rest == sticky \/ \E i \in (MantBits + 2)..n : b[i] = 1
        up == guard = 1 /\ (rest \/ b[MantBits] = 1)
    IN  The({IF inc[1] = 1
             THEN FFin(s, e + (n - MantBits) + 1, SubSeq(inc, 1, MantBits))
             ELSE FFin(s, e + (n - MantBits), Tail(inc))
             : inc \in {IF up THEN BAdd(top, PadLeft(<<1>>, MantBits)) ELSE <<0>> \o top}})

\* the double nearest to (-1)^s * (bits * 2^e + a fraction of 2^e that is
\* non-zero iff sticky); with sticky the bits must number more than MantBits
FRound(s, bits, e, sticky) ==
    The({IF Len(b) = 0 THEN FZero(s)
         ELSE IF Len(b) <= MantBits
              THEN FFin(s, e - (MantBits - Len(b)), b \o Zeros(MantBits - Len(b)))
         ELSE FRoundCut(s, b, e, sticky)
         : b \in {StripZeros(bits)}})

\* a decimal literal (-1)^s * n / d, d a power of ten, as CPython parses it:
\* the correctly rounded double
DecShift == 66

FLit(s, n, d) ==
    The({FRound(s, lit.q, 0 - DecShift, lit.sticky)
         : lit \in {BDiv(IntBits(n) \o Zeros(DecShift), IntBits(d))}})

FNeg(x) == [x EXCEPT !.sgn = 1 - x.sgn]

\* x + y for finite non-zero x and y
FAddFin(x, y) ==
    LET emin == IF x.e < y.e THEN x.e ELSE y.e
        wx == Len(x.m) + (x.e - emin)
        wy == Len(y.m) + (y.e - emin)
        w == IF wx > wy THEN wx ELSE wy
    IN  The({IF x.sgn = y.sgn THEN FRound(x.sgn, BAdd(px, py), emin, FALSE)
             ELSE IF px = py THEN FZero(0)
             ELSE IF BLess(px, py) THEN FRound(y.sgn, BSub(py, px), emin, FALSE)
             ELSE FRound(x.sgn, BSub(px, py), emin, FALSE)
             : px \in {PadLeft(x.m \o Zeros(x.e - emin), w)},
               py \in {PadLeft(y.m \o Zeros(y.e - emin), w)}})

FAdd(p, q) ==
    The({IF x.cls = "nan" \/ y.cls = "nan" THEN FNaN
         ELSE IF x.cls = "inf"
              THEN IF y.cls = "inf" /\ y.sgn # x.sgn THEN FNaN ELSE x
         ELSE IF y.cls = "inf" THEN y
         ELSE IF x.cls = "zero"
              THEN IF y.cls = "zero"
                   THEN FZero(IF x.sgn = 1 /\ y.sgn = 1 THEN 1 ELSE 0)
                   ELSE y
         ELSE IF y.cls = "zero" THEN x
         ELSE FAddFin(x, y)
         : x \in {p}, y \in {q}})

FSub(x, y) == FAdd(x, FNeg(y))

FSgnXor(x, y) == IF x.sgn = y.sgn THEN 0 ELSE 1

FMul(p, q) ==
    The({IF x.cls = "nan" \/ y.cls = "nan" THEN FNaN
         ELSE IF x.cls = "inf" \/ y.cls = "inf"
              THEN IF x.cls = "zero" \/ y.cls = "zero" THEN FNaN ELSE FInf(FSgnXor(x, y))
         ELSE IF x.cls = "zero" \/ y.cls = "zero" THEN FZero(FSgnXor(x, y))
         ELSE FRound(FSgnXor(x, y), BMul(x.m, y.m), x.e + y.e, FALSE)
         : x \in {p}, y \in {q}})

\* numpy true division: x / 0 is +-inf (nan for 0 / 0), never an exception
DivShift == 55

FDiv(p, q) ==
    The({IF x.cls = "nan" \/ y.cls = "nan" THEN FNaN
         ELSE IF x.cls = "inf"
              THEN IF y.cls = "inf" THEN FNaN ELSE FInf(FSgnXor(x, y))
         ELSE IF y.cls = "inf" THEN FZero(FSgnXor(x, y))
         ELSE IF y.cls = "zero"
              THEN IF x.cls = "zero" THEN FNaN ELSE FInf(FSgnXor(x, y))
         ELSE IF x.cls = "zero" THEN FZero(FSgnXor(x, y))
         ELSE The({FRound(FSgnXor(x, y), quo.q, x.e - y.e - DivShift, quo.sticky)
                   : quo \in {BDiv(x.m \o Zeros(DivShift), y.m)}})
         : x \in {p}, y \in {q}})

\* x > 0 as IEEE comparison decides it (+inf > 0, nan > 0 is false)
FPositive(x) == x.cls \in {"fin", "inf"} /\ x.sgn = 0

(***************************************************************************)
(* Text.  A line of output is a sequence of cells; a cell is a piece of    *)
(* text, an integer, a clock reading or a formatted number, so that what   *)
(* is written can be compared with what was computed.                      *)
(***************************************************************************)
Cell(cls, txt, neg, int, frac, places, bits) ==
    [cls |-> cls, txt |-> txt, neg |-> neg, int |-> int, frac |-> frac,
     places |-> places, bits |-> bits]

Txt(t) == Cell("text", t, FALSE, 0, 0, 0, <<>>)
IntCell(n) == Cell("int", "", n < 0, IF n < 0 THEN 0 - n ELSE n, 0, 0, <<>>)
TimeCell(t) == Cell("time", "", FALSE, t, 0, 0, <<>>)
Num(neg, int, frac, places) == Cell("num", "", neg, int, frac, places, <<>>)

\* full is m * 10^places written with the binary point before its last
\* -e bits (e < 0), or m * 10^places * 2^e as a whole number (e >= 0)
FFmtFin(neg, full, cut, places) ==
    The({The({Num(neg, units \div 10^places, units % 10^places, places)
              : units \in {IF /\ cut < Len(full)
                              /\ full[cut + 1] = 1
                              /\ \/ \E i \in (cut + 2)..Len(full) : full[i] = 1
                                 \/ ip % 2 = 1
                           THEN ip + 1 ELSE ip}})
         : ip \in {BitsInt(SubSeq(full, 1, cut))}})

\* Python's fixed-point formatting '%.<places>f' (also pandas float_format and
\* the f-string ':.<places>f'): the exact binary value rounded half-even to
\* that many decimals; inf and nan print as words
FFmt(p, places) ==
    The({IF x.cls = "nan" THEN Cell("nan", "", FALSE, 0, 0, 0, <<>>)
         ELSE IF x.cls = "inf" THEN Cell("inf", "", x.sgn = 1, 0, 0, 0, <<>>)
         ELSE IF x.cls = "zero" THEN Num(x.sgn = 1, 0, 0, places)
         ELSE The({IF x.e >= 0
                   THEN FFmtFin(x.sgn = 1, prod \o Zeros(x.e), Len(prod) + x.e, places)
                   ELSE The({FFmtFin(x.sgn = 1, full, Len(full) + x.e, places)
                             : full \in {PadLeft(prod, IF Len(prod) > 0 - x.e
                                                       THEN Len(prod) ELSE 1 - x.e)}})
                   : prod \in {StripZeros(BMul(x.m, IntBits(10^places)))}})
         : x \in {p}})

\* the double a formatted number reads back as (float(text))
FParse(c) ==
    The({IF t.cls = "nan" THEN FNaN
         ELSE IF t.cls = "inf" THEN FInf(IF t.neg THEN 1 ELSE 0)
         ELSE FLit(IF t.neg THEN 1 ELSE 0, t.int * 10^t.places + t.frac, 10^t.places)
         : t \in {c}})

\* repr(x) / str(x) of a float: the shortest decimal that reads back as x.
\* Decimals of up to ReprPlaces places are searched; a double that needs
\* more digits is written out by its exact value.
ReprPlaces == 4

FRepr(p) ==
    The({IF x.cls # "fin" THEN FFmt(x, 1)
         ELSE The({IF exact = {} THEN Cell("exact", "", x.sgn = 1, x.e, 0, 0, x.m)
                   ELSE FFmt(x, CHOOSE n \in exact : \A k \in exact : n <= k)
                   : exact \in {{n \in 1..ReprPlaces : FParse(FFmt(x, n)) = x}}})
         : x \in {p}})

Range(f) == {f[x] : x \in DOMAIN f}

(***************************************************************************)
(* The scenario scripts.                                                   *)
(*                                                                         *)
(* A scenario is one process invocation that runs its function from the    *)
(* first statement to the last; scenarios run one after the other.  The    *)
(* literal input table of Scenario B is fixed for a whole behaviour; it is *)
(* drawn in Init from a bounded set of cohorts that holds the table of the *)
(* source.  A propensity score is a decimal literal, a number of tenths.   *)
(***************************************************************************)
MaxRows == 1
MaxClock == 1

OUTPUT_FILEPATH_B == "data/scenario_B_results.csv"
OUTPUT_FILEPATH_C == "data/scenario_C_results.csv"
Paths == {OUTPUT_FILEPATH_B, OUTPUT_FILEPATH_C}

One == FLit(0, 1, 1)
P_A1 == FLit(0, 5, 10)

\* g (Propensity Score) literals, in tenths and read as n / 10: the four of
\* the source's table, the marginal P_A1, and the two ends 0.0 and 1.0
Tenths == {0, 2, 4, 5, 8, 9, 10}
Row(a, g) == [A |-> a, g |-> g]
FixedCohort == <<Row(1, 8), Row(1, 4), Row(0, 9), Row(0, 2)>>
RowSet == {Row(a, g) : a \in {0, 1}, g \in Tenths}
CohortSet == {FixedCohort} \cup UNION {[1..n -> RowSet] : n \in 1..MaxRows}

\* variant: the untreated arm subtracts the wrong way round
conditional_probability_flipped(a, g) == IF a = 1 THEN g ELSE FSub(g, One)

\* P(A|L) = g if A=1, or (1-g) if A=0
conditional_probability(a, g) == IF a = 1 THEN g ELSE FSub(One, g)

\* Raw IPTW = 1 / P(A|L)
raw_weight(c) == FDiv(One, c)

\* variant: the untreated arm is left unstabilized
marginal_probability_treated_only(a) == IF a = 1 THEN P_A1 ELSE One

\* P(A) is P_A1 if A=1, or 1 - P_A1 if A=0
marginal_probability(a) == IF a = 1 THEN P_A1 ELSE FSub(One, P_A1)

\* variant: the marginal probability is dropped from the numerator
stabilized_weight_unscaled(m, c) == FDiv(One, c)

\* Stabilized IPTW = P(A) / P(A|L)
stabilized_weight(m, c) == FDiv(m, c)

\* Series.sum(): NaN entries are skipped, the rest added up front to back
RECURSIVE SeriesSum(_)
SeriesSum(col) ==
    IF col = <<>> THEN FZero(0)
    ELSE LET last == col[Len(col)]
         IN  FAdd(SeriesSum(SubSeq(col, 1, Len(col) - 1)),
                  IF last.cls = "nan" THEN FZero(0) ELSE last)

\* The arithmetic above, worked out once for every value a cohort of
\* CohortSet can hold; the steps of the script look their results up here.
LitTab == [g \in Tenths |-> FLit(0, g, 10)]
CondTab == [a \in {0, 1} |-> [x \in Range(LitTab) |-> conditional_probability(a, x)]]
CondValues == Range(CondTab[0]) \cup Range(CondTab[1])
RawTab == [c \in CondValues |-> raw_weight(c)]
MargTab == [a \in {0, 1} |-> marginal_probability(a)]
StabTab == [m \in Range(MargTab) |-> [c \in CondValues |-> stabilized_weight(m, c)]]
StabColumn(d) == [i \in 1..Len(d) |-> StabTab[MargTab[d[i].A]][CondTab[d[i].A][LitTab[d[i].g]]]]
SumTab == [col \in {StabColumn(d) : d \in CohortSet} |-> SeriesSum(col)]
FmtValues ==
    Range(LitTab) \cup Range(RawTab) \cup Range(SumTab)
        \cup UNION {Range(StabTab[m]) : m \in Range(MargTab)}
Fmt4Tab == [x \in FmtValues |-> FFmt(x, 4)]
P_A1_Text == FRepr(P_A1)

\* a file: whether it exists, and its lines
NoFile == [exists |-> FALSE, lines |-> <<>>]
File(lines) == [exists |-> TRUE, lines |-> lines]

\* what a file can hold before the first run: nothing at all (absent), no
\* line, or lines some other writer left
Garbage == << <<Txt("stale")>>, <<Txt("#"), Txt("stale")>> >>
InitialContents == {NoFile, File(<<>>), File(Garbage)}

NoDf == [A |-> <<>>, g |-> <<>>, cond |-> <<>>, raw |-> <<>>, marg |-> <<>>, stab |-> <<>>]
NoHandle == [open |-> FALSE, path |-> "", buf |-> <<>>, discarded |-> FALSE]
NoCalls == [makedirs |-> 0, open |-> 0, close |-> 0]
Statuses == {"none", "ok", "OSError"}

VARIABLES
    data,           \* Scenario B's literal table (lines 50-54)
    dirExists,      \* whether the directory 'data' exists
    files,          \* path -> file
    now,            \* the wall clock, in seconds
    running,        \* the scenario whose process is alive: "none", "B", "C"
    pc,             \* the statement that process is at
    df,             \* Scenario B's data frame, column by column
    sum_siptw,      \* Scenario B's cohort sum
    avg_prob,       \* Scenario C's average_predicted_prob
    table,          \* the report table (results_table / results_df)
    metadata,       \* the StringIO metadata lines
    fh,             \* the file object f: its path, its write buffer, and
                    \* whether opening it discarded lines the file held
    console,        \* what the last process printed so far
    calls,          \* per run: number of makedirs, open and close calls
    status,         \* how the last process ended
    seqA,           \* Scenario A's input rows
    imputed,        \* Scenario A's imputed measurements
    tslo,           \* Scenario A's time since last observation
    pcA             \* Scenario A's position

vars == <<data, dirExists, files, now, running, pc, df, sum_siptw, avg_prob,
          table, metadata, fh, console, calls, status, seqA, imputed, tslo, pcA>>

varsA == <<seqA, imputed, tslo, pcA>>

\* a process starts with fresh memory and an empty console
Fresh ==
    /\ df' = NoDf
    /\ sum_siptw' = FZero(0)
    /\ avg_prob' = FZero(0)
    /\ table' = <<>>
    /\ metadata' = <<>>
    /\ fh' = NoHandle
    /\ calls' = NoCalls

InitBC ==
    /\ dirExists \in BOOLEAN
    /\ files \in [Paths -> InitialContents]
    /\ dirExists = FALSE => \A p \in Paths : files[p] = NoFile
    /\ now = 0
    /\ running = "none"
    /\ pc = "exit"
    /\ df = NoDf
    /\ sum_siptw = FZero(0)
    /\ avg_prob = FZero(0)
    /\ table = <<>>
    /\ metadata = <<>>
    /\ fh = NoHandle
    /\ console = <<>>
    /\ calls = NoCalls
    /\ status = "none"

IdleA ==
    /\ seqA = <<>>
    /\ imputed = <<>>
    /\ tslo = <<>>
    /\ pcA = "idle"

Init ==
    /\ data \in CohortSet
    /\ InitBC
    /\ IdleA

\* the clock advances on its own
Tick ==
    /\ now < MaxClock
    /\ now' = now + 1
    /\ UNCHANGED <<data, dirExists, files, running, pc, df, sum_siptw, avg_prob,
                   table, metadata, fh, console, calls, status, varsA>>

\* the end of the script, or an uncaught exception: the process is gone,
\* and its memory with it
Exit(how) ==
    /\ running' = "none"
    /\ pc' = "exit"
    /\ status' = how
    /\ Fresh

(***************************************************************************)
(* Scenario B: calculate_iptw_weights()                                    *)
(***************************************************************************)
\* python scenario_B_iptw_calculation.py
StartB ==
    /\ running = "none"
    /\ running' = "B"
    /\ pc' = "B_data"
    /\ status' = "none"
    /\ console' = <<>>
    /\ Fresh
    /\ UNCHANGED <<data, dirExists, files, now, varsA>>

\* 1. Initialize the data; print it
InitDataB ==
    /\ running = "B" /\ pc = "B_data"
    /\ df' = [NoDf EXCEPT !.A = [i \in 1..Len(data) |-> data[i].A],
                          !.g = [i \in 1..Len(data) |-> LitTab[data[i].g]]]
    /\ console' = console \o << <<Txt("Scenario B: Initial Data")>>,
                                <<Txt("Assumption: Marginal P(A=1) ="), P_A1_Text>> >>
    /\ pc' = "B_cond"
    /\ UNCHANGED <<data, dirExists, files, now, running, sum_siptw, avg_prob,
                   table, metadata, fh, calls, status, varsA>>

\* Step 1: df['P(A|L)'] = np.where(A == 1, g, 1 - g)
CondB ==
    /\ running = "B" /\ pc = "B_cond"
    /\ df' = [df EXCEPT !.cond = [i \in 1..Len(df.A) |-> CondTab[df.A[i]][df.g[i]]]]
    /\ pc' = "B_raw"
    /\ UNCHANGED <<data, dirExists, files, now, running, sum_siptw, avg_prob,
                   table, metadata, fh, console, calls, status, varsA>>

\* Task 1: df['Raw IPTW'] = 1 / df['P(A|L)']
RawB ==
    /\ running = "B" /\ pc = "B_raw"
    /\ df' = [df EXCEPT !.raw = [i \in 1..Len(df.A) |-> RawTab[df.cond[i]]]]
    /\ pc' = "B_marg"
    /\ UNCHANGED <<data, dirExists, files, now, running, sum_siptw, avg_prob,
                   table, metadata, fh, console, calls, status, varsA>>

\* Step 2: df['P(A)'] = np.where(A == 1, P_A1, 1 - P_A1)
MargB ==
    /\ running = "B" /\ pc = "B_marg"
    /\ df' = [df EXCEPT !.marg = [i \in 1..Len(df.A) |-> MargTab[df.A[i]]]]
    /\ pc' = "B_stab"
    /\ UNCHANGED <<data, dirExists, files, now, running, sum_siptw, avg_prob,
                   table, metadata, fh, console, calls, status, varsA>>

\* Task 2: df['Stabilized IPTW'] = df['P(A)'] / df['P(A|L)']
StabB ==
    /\ running = "B" /\ pc = "B_stab"
    /\ df' = [df EXCEPT !.stab = [i \in 1..Len(df.A) |-> StabTab[df.marg[i]][df.cond[i]]]]
    /\ pc' = "B_sum"
    /\ UNCHANGED <<data, dirExists, files, now, running, sum_siptw, avg_prob,
                   table, metadata, fh, console, calls, status, varsA>>

\* Task 3: sum_siptw = df['Stabilized IPTW'].sum()
SumB ==
    /\ running = "B" /\ pc = "B_sum"
    /\ sum_siptw' = SumTab[df.stab]
    /\ pc' = "B_present"
    /\ UNCHANGED <<data, dirExists, files, now, running, df, avg_prob,
                   table, metadata, fh, console, calls, status, varsA>>

\* the report table and its rendering with four decimals, on the console
\* (floatfmt=".4f") and in the file (float_format='%.4f'); Patient ID and
\* A (Treatment) are integer columns
HeaderB ==
    <<Txt("Patient ID"), Txt("A (Treatment)"), Txt("g (Propensity Score)"),
      Txt("Raw IPTW"), Txt("Stabilized IPTW")>>
results_table(d) == [i \in 1..Len(d.A) |-> <<i, d.A[i], d.g[i], d.raw[i], d.stab[i]>>]
RenderB(row) ==
    <<IntCell(row[1]), IntCell(row[2]), Fmt4Tab[row[3]], Fmt4Tab[row[4]], Fmt4Tab[row[5]]>>
\* variant: to_csv(header=False)
RenderTableB_headless(t) == [i \in 1..Len(t) |-> RenderB(t[i])]

RenderTableB(t) == <<HeaderB>> \o [i \in 1..Len(t) |-> RenderB(t[i])]

PresentB ==
    /\ running = "B" /\ pc = "B_present"
    /\ table' = results_table(df)
    /\ console' = console \o <<<<Txt("IPTW and SIPTW Results per Patient")>>>>
                          \o RenderTableB(results_table(df))
                          \o <<<<Txt("Final Sum of Stabilized Weights"), Fmt4Tab[sum_siptw]>>>>
    /\ pc' = "B_metadata"
    /\ UNCHANGED <<data, dirExists, files, now, running, df, sum_siptw, avg_prob,
                   metadata, fh, calls, status, varsA>>

\* the metadata StringIO; the date line reads the clock
MetadataLinesB(t) ==
    << <<Txt("#"), Txt("Results for Scenario B: IPTW and Stabilized IPTW Calculation")>>,
       <<Txt("#"), Txt("----")>>,
       <<Txt("#"), Txt("Task: Calculate Raw IPTW, Stabilized IPTW, and the Sum of SIPTW.")>>,
       <<Txt("#"), Txt("ASSUMPTION: Marginal Probability P(A=1) ="), P_A1_Text>>,
       <<Txt("#"), Txt("Columns: Raw IPTW and Stabilized IPTW per patient.")>>,
       <<Txt("#"), Txt("Date Generated:"), TimeCell(t)>>,
       <<Txt("#"), Txt("----")>> >>

MetadataB ==
    /\ running = "B" /\ pc = "B_metadata"
    /\ metadata' = MetadataLinesB(now)
    /\ pc' = "B_makedirs"
    /\ UNCHANGED <<data, dirExists, files, now, running, df, sum_siptw, avg_prob,
                   table, fh, console, calls, status, varsA>>

\* os.makedirs('data', exist_ok=True): nothing to do when the directory is
\* there, else it is created or the call raises OSError
MakedirsB ==
    /\ running = "B" /\ pc = "B_makedirs"
    /\ \/ /\ dirExists' = TRUE
          /\ calls' = [calls EXCEPT !.makedirs = @ + 1]
          /\ pc' = "B_open"
          /\ UNCHANGED <<running, status, df, sum_siptw, avg_prob, table, metadata, fh>>
       \/ /\ ~dirExists
          /\ UNCHANGED dirExists
          /\ Exit("OSError")
    /\ UNCHANGED <<data, files, now, console, varsA>>

\* variant: open(OUTPUT_FILEPATH, 'a'), which keeps what the file holds
OpenB_append ==
    /\ running = "B" /\ pc = "B_open"
    /\ \/ /\ files' = [files EXCEPT ![OUTPUT_FILEPATH_B] = File(@.lines)]
          /\ fh' = [open |-> TRUE, path |-> OUTPUT_FILEPATH_B, buf |-> <<>>,
                    discarded |-> files[OUTPUT_FILEPATH_B].lines # <<>>]
          /\ calls' = [calls EXCEPT !.open = @ + 1]
          /\ pc' = "B_write"
          /\ UNCHANGED <<running, status, df, sum_siptw, avg_prob, table, metadata>>
       \/ /\ UNCHANGED files
          /\ Exit("OSError")
    /\ UNCHANGED <<data, dirExists, now, console, varsA>>

\* with open(OUTPUT_FILEPATH, 'w') as f: creates or truncates the file, or
\* raises OSError
OpenB ==
    /\ running = "B" /\ pc = "B_open"
    /\ \/ /\ files' = [files EXCEPT ![OUTPUT_FILEPATH_B] = File(<<>>)]
          /\ fh' = [open |-> TRUE, path |-> OUTPUT_FILEPATH_B, buf |-> <<>>,
                    discarded |-> files[OUTPUT_FILEPATH_B].lines # <<>>]
          /\ calls' = [calls EXCEPT !.open = @ + 1]
          /\ pc' = "B_write"
          /\ UNCHANGED <<running, status, df, sum_siptw, avg_prob, table, metadata>>
       \/ /\ UNCHANGED files
          /\ Exit("OSError")
    /\ UNCHANGED <<data, dirExists, now, console, varsA>>

\* f.write(metadata.getvalue()): into the file object's buffer
WriteMetaB ==
    /\ running = "B" /\ pc = "B_write"
    /\ fh' = [fh EXCEPT !.buf = @ \o metadata]
    /\ pc' = "B_to_csv"
    /\ UNCHANGED <<data, dirExists, files, now, running, df, sum_siptw, avg_prob,
                   table, metadata, console, calls, status, varsA>>

\* results_table.to_csv(f, index=False, float_format='%.4f')
ToCsvB ==
    /\ running = "B" /\ pc = "B_to_csv"
    /\ fh' = [fh EXCEPT !.buf = @ \o RenderTableB(table)]
    /\ pc' = "B_close"
    /\ UNCHANGED <<data, dirExists, files, now, running, df, sum_siptw, avg_prob,
                   table, metadata, console, calls, status, varsA>>

\* a flush that fails has written nothing, or the leading part of the
\* buffer up to some line; the cuts modelled are none and the metadata block
PartialCuts(buf, meta) == {0, Len(meta)}

\* variant: the failed flush is swallowed (try / except: pass)
CloseB_swallow ==
    /\ running = "B" /\ pc = "B_close"
    /\ \E k \in PartialCuts(fh.buf, metadata) \cup {Len(fh.buf)} :
          files' = [files EXCEPT ![fh.path] =
                        File(files[fh.path].lines \o SubSeq(fh.buf, 1, k))]
    /\ fh' = [fh EXCEPT !.open = FALSE, !.buf = <<>>]
    /\ calls' = [calls EXCEPT !.close = @ + 1]
    /\ pc' = "B_saved"
    /\ UNCHANGED <<running, status, df, sum_siptw, avg_prob, table, metadata>>
    /\ UNCHANGED <<data, dirExists, now, console, varsA>>

\* leaving the with block closes f: the buffer is appended to what the file
\* holds since it was opened, or the flush raises OSError part-way
CloseB ==
    /\ running = "B" /\ pc = "B_close"
    /\ \/ /\ files' = [files EXCEPT ![fh.path] = File(files[fh.path].lines \o fh.buf)]
          /\ fh' = [fh EXCEPT !.open = FALSE, !.buf = <<>>]
          /\ calls' = [calls EXCEPT !.close = @ + 1]
          /\ pc' = "B_saved"
          /\ UNCHANGED <<running, status, df, sum_siptw, avg_prob, table, metadata>>
       \/ /\ \E k \in PartialCuts(fh.buf, metadata) :
                files' = [files EXCEPT ![fh.path] =
                              File(files[fh.path].lines \o SubSeq(fh.buf, 1, k))]
          /\ Exit("OSError")
    /\ UNCHANGED <<data, dirExists, now, console, varsA>>

SavedLine == <<Txt("Numerical results successfully saved")>>

\* print("... successfully saved to ..."), and the script ends
SavedB ==
    /\ running = "B" /\ pc = "B_saved"
    /\ console' = Append(console, SavedLine)
    /\ Exit("ok")
    /\ UNCHANGED <<data, dirExists, files, now, varsA>>

NextB ==
    \/ StartB \/ InitDataB \/ CondB \/ RawB \/ MargB \/ StabB \/ SumB
    \/ PresentB \/ MetadataB \/ MakedirsB \/ OpenB \/ WriteMetaB \/ ToCsvB
    \/ CloseB \/ SavedB

(***************************************************************************)
(* Scenario C: analyze_calibration_metrics()                               *)
(***************************************************************************)
CITL_BIAS == FLit(1, 10, 100)
OBSERVED_RATE == FLit(0, 1, 10)
CALIBRATION_SLOPE == FLit(0, 70, 100)

\* variant: the rearrangement of CITL = predicted - observed with the wrong sign
average_predicted_probability_swapped(citl, rate) == FSub(rate, citl)

\* Average Predicted Probability = CITL Bias + Observed Rate
average_predicted_probability(citl, rate) == FAdd(citl, rate)

\* worked out once: the inputs are literals of the function
AvgProbValue == average_predicted_probability(CITL_BIAS, OBSERVED_RATE)
CITL_Text == FRepr(CITL_BIAS)
RATE_Text == FRepr(OBSERVED_RATE)
SLOPE_Text == FRepr(CALIBRATION_SLOPE)
AvgRepr == [x \in {AvgProbValue} |-> FRepr(x)]
AvgFmt2 == [x \in {AvgProbValue} |-> FFmt(x, 2)]

\* python scenario_C_calibration_evaluation.py
StartC ==
    /\ running = "none"
    /\ running' = "C"
    /\ pc' = "C_inputs"
    /\ status' = "none"
    /\ console' = <<>>
    /\ Fresh
    /\ UNCHANGED <<data, dirExists, files, now, varsA>>

\* Input Data and Assumptions; print them
InputsC ==
    /\ running = "C" /\ pc = "C_inputs"
    /\ console' = console \o << <<Txt("Scenario C: Calibration Analysis")>>,
                                <<Txt("CITL Bias (Given):"), CITL_Text>>,
                                <<Txt("Observed Rate (O/N):"), RATE_Text>>,
                                <<Txt("Calibration Slope (Given):"), SLOPE_Text>> >>
    /\ pc' = "C_calc"
    /\ UNCHANGED <<data, dirExists, files, now, running, df, sum_siptw, avg_prob,
                   table, metadata, fh, calls, status, varsA>>

\* TASK 2: average_predicted_prob = CITL_BIAS + OBSERVED_RATE
CalcC ==
    /\ running = "C" /\ pc = "C_calc"
    /\ avg_prob' = AvgProbValue
    /\ pc' = "C_table"
    /\ UNCHANGED <<data, dirExists, files, now, running, df, sum_siptw,
                   table, metadata, fh, console, calls, status, varsA>>

\* interpretation_data / results_df: Metric, Result, Logic; the Result
\* column holds two floats and the text 'N/A', the second Logic text embeds
\* the result formatted ':.2f'
HeaderC == <<Txt("Metric"), Txt("Result"), Txt("Calculation/Interpretation Logic")>>
NotApplicable == [isnum |-> FALSE, val |-> FZero(0)]
Number(x) == [isnum |-> TRUE, val |-> x]
LogicText(avg) ==
    [AvgFmt2[avg] EXCEPT !.cls = "text",
                         !.txt = "Logic: Avg. Predicted Prob. = CITL Bias + Observed Rate."]
interpretation_data(avg) ==
    << <<Txt("1. Calibration Slope"), Number(CALIBRATION_SLOPE),
         Txt("The ideal slope is 1.0. A slope of 0.70 (< 1.0) indicates poor refinement")>>,
       <<Txt("2. Average Predicted Probability (Calculated)"), Number(avg),
         LogicText(avg)>>,
       <<Txt("3. Clinical Implication (Slope 0.70)"), NotApplicable,
         Txt("For individual patients, the model overestimates high risks")>> >>

\* a Result cell as str() writes it: a mixed column is not float-formatted
ResultText(r) ==
    IF ~r.isnum THEN Txt("N/A")
    ELSE IF r.val = CALIBRATION_SLOPE THEN SLOPE_Text
    ELSE AvgRepr[r.val]
RenderC(row) == <<row[1], ResultText(row[2]), row[3]>>
RenderTableC(t) == <<HeaderC>> \o [i \in 1..Len(t) |-> RenderC(t[i])]

TableC ==
    /\ running = "C" /\ pc = "C_table"
    /\ table' = interpretation_data(avg_prob)
    /\ console' = console \o <<<<Txt("Final Calculated Result & Interpretation Summary")>>>>
                          \o RenderTableC(interpretation_data(avg_prob))
    /\ pc' = "C_metadata"
    /\ UNCHANGED <<data, dirExists, files, now, running, df, sum_siptw, avg_prob,
                   metadata, fh, calls, status, varsA>>

MetadataLinesC(t) ==
    << <<Txt("#"), Txt("Results for Scenario C: Calibration Evaluation")>>,
       <<Txt("#"), Txt("----")>>,
       <<Txt("#"), Txt("Task: Calculate Average Predicted Probability and provide interpretations.")>>,
       <<Txt("#"), Txt("Input Values: CITL Bias="), CITL_Text, Txt("Observed Rate="), RATE_Text>>,
       <<Txt("#"), Txt("Date Generated:"), TimeCell(t)>>,
       <<Txt("#"), Txt("----")>> >>

MetadataC ==
    /\ running = "C" /\ pc = "C_metadata"
    /\ metadata' = MetadataLinesC(now)
    /\ pc' = "C_makedirs"
    /\ UNCHANGED <<data, dirExists, files, now, running, df, sum_siptw, avg_prob,
                   table, fh, console, calls, status, varsA>>

\* os.makedirs('data', exist_ok=True)
MakedirsC ==
    /\ running = "C" /\ pc = "C_makedirs"
    /\ \/ /\ dirExists' = TRUE
          /\ calls' = [calls EXCEPT !.makedirs = @ + 1]
          /\ pc' = "C_open"
          /\ UNCHANGED <<running, status, df, sum_siptw, avg_prob, table, metadata, fh>>
       \/ /\ ~dirExists
          /\ UNCHANGED dirExists
          /\ Exit("OSError")
    /\ UNCHANGED <<data, files, now, console, varsA>>

\* variant: the output path of the other script, copied along with the code
OpenC_other_path ==
    /\ running = "C" /\ pc = "C_open"
    /\ \/ /\ files' = [files EXCEPT ![OUTPUT_FILEPATH_B] = File(<<>>)]
          /\ fh' = [open |-> TRUE, path |-> OUTPUT_FILEPATH_B, buf |-> <<>>,
                    discarded |-> files[OUTPUT_FILEPATH_B].lines # <<>>]
          /\ calls' = [calls EXCEPT !.open = @ + 1]
          /\ pc' = "C_write"
          /\ UNCHANGED <<running, status, df, sum_siptw, avg_prob, table, metadata>>
       \/ /\ UNCHANGED files
          /\ Exit("OSError")
    /\ UNCHANGED <<data, dirExists, now, console, varsA>>

\* with open(OUTPUT_FILEPATH, 'w') as f
OpenC ==
    /\ running = "C" /\ pc = "C_open"
    /\ \/ /\ files' = [files EXCEPT ![OUTPUT_FILEPATH_C] = File(<<>>)]
          /\ fh' = [open |-> TRUE, path |-> OUTPUT_FILEPATH_C, buf |-> <<>>,
                    discarded |-> files[OUTPUT_FILEPATH_C].lines # <<>>]
          /\ calls' = [calls EXCEPT !.open = @ + 1]
          /\ pc' = "C_write"
          /\ UNCHANGED <<running, status, df, sum_siptw, avg_prob, table, metadata>>
       \/ /\ UNCHANGED files
          /\ Exit("OSError")
    /\ UNCHANGED <<data, dirExists, now, console, varsA>>

\* f.write(metadata.getvalue())
WriteMetaC ==
    /\ running = "C" /\ pc = "C_write"
    /\ fh' = [fh EXCEPT !.buf = @ \o metadata]
    /\ pc' = "C_to_csv"
    /\ UNCHANGED <<data, dirExists, files, now, running, df, sum_siptw, avg_prob,
                   table, metadata, console, calls, status, varsA>>

\* results_df.to_csv(f, index=False)
ToCsvC ==
    /\ running = "C" /\ pc = "C_to_csv"
    /\ fh' = [fh EXCEPT !.buf = @ \o RenderTableC(table)]
    /\ pc' = "C_close"
    /\ UNCHANGED <<data, dirExists, files, now, running, df, sum_siptw, avg_prob,
                   table, metadata, console, calls, status, varsA>>

\* leaving the with block closes f
CloseC ==
    /\ running = "C" /\ pc = "C_close"
    /\ \/ /\ files' = [files EXCEPT ![fh.path] = File(files[fh.path].lines \o fh.buf)]
          /\ fh' = [fh EXCEPT !.open = FALSE, !.buf = <<>>]
          /\ calls' = [calls EXCEPT !.close = @ + 1]
          /\ pc' = "C_saved"
          /\ UNCHANGED <<running, status, df, sum_siptw, avg_prob, table, metadata>>
       \/ /\ \E k \in PartialCuts(fh.buf, metadata) :
                files' = [files EXCEPT ![fh.path] =
                              File(files[fh.path].lines \o SubSeq(fh.buf, 1, k))]
          /\ Exit("OSError")
    /\ UNCHANGED <<data, dirExists, now, console, varsA>>

\* print("... saved to ..."), and the script ends
SavedC ==
    /\ running = "C" /\ pc = "C_saved"
    /\ console' = Append(console, SavedLine)
    /\ Exit("ok")
    /\ UNCHANGED <<data, dirExists, files, now, varsA>>

NextC ==
    \/ StartC \/ InputsC \/ CalcC \/ TableC \/ MetadataC \/ MakedirsC \/ OpenC
    \/ WriteMetaC \/ ToCsvC \/ CloseC \/ SavedC

(***************************************************************************)
(* Scenario A: LOCF imputation and time since last observation.  Its       *)
(* script is not among the sources; the two operations are those of the    *)
(* specification's section 4.1 and of the README table.  A row is a time   *)
(* in hours and a heart rate, or the marker that none was measured; time   *)
(* stamps strictly increase and the first row is observed.                 *)
(***************************************************************************)
MaxLenA == 3
MaxTimeA == 4

HeartRates == {95, 102}
Observed(t, hr) == [t |-> t, missing |-> FALSE, hr |-> hr]
Missing(t) == [t |-> t, missing |-> TRUE, hr |-> 0]
RowsA == {Observed(t, hr) : t \in 0..MaxTimeA, hr \in HeartRates}
             \cup {Missing(t) : t \in 0..MaxTimeA}
SequencesA ==
    {q \in UNION {[1..n -> RowsA] : n \in 1..MaxLenA} :
        /\ ~q[1].missing
        /\ \A i \in 1..(Len(q) - 1) : q[i].t < q[i + 1].t}

\* impute_locf: one forward pass that carries the last measured value
RECURSIVE LocfFrom(_, _, _, _)
LocfFrom(q, i, last, acc) ==
    IF i > Len(q) THEN acc
    ELSE LET cur == IF q[i].missing THEN last ELSE [missing |-> FALSE, hr |-> q[i].hr]
         IN  LocfFrom(q, i + 1, cur, Append(acc, cur))

impute_locf(q) == LocfFrom(q, 1, [missing |-> TRUE, hr |-> 0], <<>>)

\* time_since_last_observation: the same pass, carrying the time stamp of
\* the last row that was really measured
RECURSIVE TsloFrom(_, _, _, _)
TsloFrom(q, i, lastT, acc) ==
    IF i > Len(q) THEN acc
    ELSE LET anchor == IF q[i].missing THEN lastT ELSE q[i].t
         IN  TsloFrom(q, i + 1, anchor, Append(acc, q[i].t - anchor))

\* variant: the time since the previous row, observed or not
time_since_previous_row(q) ==
    [i \in 1..Len(q) |-> IF q[i].missing /\ i > 1 THEN q[i].t - q[i - 1].t ELSE 0]

time_since_last_observation(q) == TsloFrom(q, 1, q[1].t, <<>>)

ImputeA ==
    /\ pcA = "start"
    /\ imputed' = impute_locf(seqA)
    /\ pcA' = "imputed"
    /\ UNCHANGED <<data, dirExists, files, now, running, pc, df, sum_siptw, avg_prob,
                   table, metadata, fh, console, calls, status, seqA, tslo>>

TsloA ==
    /\ pcA = "imputed"
    /\ tslo' = time_since_last_observation(seqA)
    /\ pcA' = "done"
    /\ UNCHANGED <<data, dirExists, files, now, running, pc, df, sum_siptw, avg_prob,
                   table, metadata, fh, console, calls, status, seqA, imputed>>

InitA ==
    /\ data = FixedCohort
    /\ InitBC
    /\ dirExists = FALSE
    /\ seqA \in SequencesA
    /\ imputed = <<>>
    /\ tslo = <<>>
    /\ pcA = "start"

NextA == ImputeA \/ TsloA

SpecA == InitA /\ [][NextA]_vars

Next == Tick \/ NextB \/ NextC

Spec == Init /\ [][Next]_vars

(***************************************************************************)
(* Properties.                                                             *)
(***************************************************************************)
\* what a run of Scenario B on cohort d, dated t, writes when nothing fails
CohortDf(d) ==
    LET colA == [i \in 1..Len(d) |-> d[i].A]
        colG == [i \in 1..Len(d) |-> LitTab[d[i].g]]
        colC == [i \in 1..Len(d) |-> CondTab[colA[i]][colG[i]]]
        colM == [i \in 1..Len(d) |-> MargTab[colA[i]]]
    IN  [A |-> colA, g |-> colG, cond |-> colC,
         raw |-> [i \in 1..Len(d) |-> RawTab[colC[i]]],
         marg |-> colM,
         stab |-> [i \in 1..Len(d) |-> StabTab[colM[i]][colC[i]]]]
ExpectedFileB(d, t) == MetadataLinesB(t) \o RenderTableB(results_table(CohortDf(d)))
ExpectedFileC(t) == MetadataLinesC(t) \o RenderTableC(interpretation_data(AvgProbValue))

IsMeta(line) == Len(line) >= 1 /\ line[1] = Txt("#")
IsDate(line) == Len(line) >= 2 /\ line[1] = Txt("#") /\ line[2] = Txt("Date Generated:")
SameButDate(f1, f2) ==
    /\ Len(f1) = Len(f2)
    /\ \A i \in 1..Len(f1) : f1[i] # f2[i] => IsDate(f1[i]) /\ IsDate(f2[i])

AtB(places) == running = "B" /\ pc \in places
AtC(places) == running = "C" /\ pc \in places
AfterSumB == {"B_present", "B_metadata", "B_makedirs", "B_open", "B_write",
              "B_to_csv", "B_close", "B_saved"}
AfterStabB == AfterSumB \cup {"B_sum"}
AfterCalcC == {"C_table", "C_metadata", "C_makedirs", "C_open", "C_write",
               "C_to_csv", "C_close", "C_saved"}
ConsoleOfB == console # <<>> /\ console[1] = <<Txt("Scenario B: Initial Data")>>
ConsoleOfC == console # <<>> /\ console[1] = <<Txt("Scenario C: Calibration Analysis")>>

\* the decimals the claims name, as doubles and as four-decimal text
C1_Cond == <<FLit(0, 8, 10), FLit(0, 4, 10), FLit(0, 1, 10), FLit(0, 8, 10)>>
C1_Raw == <<FLit(0, 125, 100), FLit(0, 25, 10), FLit(0, 10, 1), FLit(0, 125, 100)>>
C1_Stab == <<FLit(0, 625, 1000), FLit(0, 125, 100), FLit(0, 5, 1), FLit(0, 625, 1000)>>
C1_CondText == <<Num(FALSE, 0, 8000, 4), Num(FALSE, 0, 4000, 4), Num(FALSE, 0, 1000, 4),
                 Num(FALSE, 0, 8000, 4)>>
C1_RawText == <<Num(FALSE, 1, 2500, 4), Num(FALSE, 2, 5000, 4), Num(FALSE, 10, 0, 4),
                Num(FALSE, 1, 2500, 4)>>
C1_StabText == <<Num(FALSE, 0, 6250, 4), Num(FALSE, 1, 2500, 4), Num(FALSE, 5, 0, 4),
                 Num(FALSE, 0, 6250, 4)>>
C1_SumText == Num(FALSE, 7, 5000, 4)
CondFmt4 == [c \in CondValues |-> FFmt(c, 4)]

\* C1 as stated: on the fixed cohort the computed columns are, row by row,
\* the numbers 0.8, 0.4, 0.1, 0.8 / 1.25, 2.5, 10.0, 1.25 / 0.625, 1.25,
\* 5.0, 0.625, and the cohort sum is 7.5000.
C1_FixedCohortExactValues ==
    (data = FixedCohort /\ AtB(AfterSumB)) =>
        /\ df.cond = C1_Cond
        /\ df.raw = C1_Raw
        /\ df.stab = C1_Stab
        /\ Fmt4Tab[sum_siptw] = C1_SumText

\* C1 amended: on the fixed cohort the columns read, to the four decimals
\* of the output, 0.8000, 0.4000, 0.1000, 0.8000 / 1.2500, 2.5000, 10.0000,
\* 1.2500 / 0.6250, 1.2500, 5.0000, 0.6250 and the sum reads 7.5000; rows 1,
\* 2 and 4 hold exactly the doubles of those decimals, row 3 (1 - 0.9 in
\* binary floating point) does not, and neither does the sum; the rows
\* written to the file are the claimed ones.
C1_FixedCohortValuesToFourDecimals ==
    /\ (data = FixedCohort /\ AtB(AfterSumB)) =>
          /\ \A i \in 1..4 :
                /\ CondFmt4[df.cond[i]] = C1_CondText[i]
                /\ Fmt4Tab[df.raw[i]] = C1_RawText[i]
                /\ Fmt4Tab[df.stab[i]] = C1_StabText[i]
          /\ \A i \in {1, 2, 4} :
                df.cond[i] = C1_Cond[i] /\ df.raw[i] = C1_Raw[i] /\ df.stab[i] = C1_Stab[i]
          /\ df.cond[3] # C1_Cond[3] /\ df.raw[3] # C1_Raw[3] /\ df.stab[3] # C1_Stab[3]
          /\ Fmt4Tab[sum_siptw] = C1_SumText
          /\ sum_siptw # FLit(0, 75, 10)
    /\ (data = FixedCohort /\ AtB({"B_saved"})) =>
          \A i \in 1..4 :
              files[OUTPUT_FILEPATH_B].lines[8 + i] =
                  <<IntCell(i), IntCell(FixedCohort[i].A), Num(FALSE, 0, FixedCohort[i].g * 1000, 4),
                    C1_RawText[i], C1_StabText[i]>>

C1_Witness == data = FixedCohort /\ AtB({"B_saved"}) /\ now = 1

C3_Sum == FAdd(FLit(1, 10, 100), FLit(0, 1, 10))

C3_AveragePredictedIsExactlyZero ==
    /\ AtC(AfterCalcC) => avg_prob = C3_Sum /\ avg_prob = FZero(0)
    /\ AtC({"C_saved"}) =>
          /\ Len(files[OUTPUT_FILEPATH_C].lines) = Len(metadata) + 4
          /\ files[OUTPUT_FILEPATH_C].lines[Len(metadata) + 3][2] = Num(FALSE, 0, 0, 1)

C3_Witness == AtC({"C_saved"}) /\ files[OUTPUT_FILEPATH_C].lines[9][2] = Num(FALSE, 0, 0, 1)

\* C4: when the write of a run has completed, the file holds exactly what
\* one run writes, whatever it held before; for any two dates that content
\* differs in the date line only.
C4_FileIsOneFreshRun ==
    /\ AtB({"B_saved"}) =>
          /\ \E t \in 0..now : files[OUTPUT_FILEPATH_B] = File(ExpectedFileB(data, t))
          /\ \A t1, t2 \in 0..MaxClock :
                SameButDate(ExpectedFileB(data, t1), ExpectedFileB(data, t2))
    /\ AtC({"C_saved"}) =>
          /\ \E t \in 0..now : files[OUTPUT_FILEPATH_C] = File(ExpectedFileC(t))
          /\ \A t1, t2 \in 0..MaxClock : SameButDate(ExpectedFileC(t1), ExpectedFileC(t2))

C4_Witness ==
    /\ AtB({"B_saved"})
    /\ fh.discarded
    /\ files[OUTPUT_FILEPATH_B] = File(ExpectedFileB(data, now))
    /\ now > 0

\* C5: every stabilized weight computed is greater than zero and every one
\* written reads as a number greater than zero (or inf), and a run ends in
\* no other way than by reaching its end or by an I/O error.
C5_StabilizedWeightsPositive ==
    /\ \A i \in 1..Len(df.stab) : FPositive(df.stab[i])
    /\ AtB({"B_saved"}) =>
          \A i \in 1..Len(table) :
              LET cell == files[OUTPUT_FILEPATH_B].lines[Len(metadata) + 1 + i][5]
              IN  ~cell.neg /\ (cell.cls = "inf" \/ (cell.cls = "num" /\ cell.int + cell.frac > 0))
    /\ status \in Statuses

C5_Witness ==
    /\ AtB({"B_saved"})
    /\ Len(data) > 1
    /\ Fmt4Tab[sum_siptw] # Num(FALSE, Len(data), 0, 4)

\* C6: a written file is a block of '#' lines with exactly one date line,
\* then the header row, then the data rows, which with the header are the
\* lines of the table printed on the console, one per row of the table.
WellFormed(lines, header, rows) ==
    \E k \in 1..(Len(lines) - 1) :
        /\ \A i \in 1..k : IsMeta(lines[i])
        /\ \A i \in (k + 1)..Len(lines) : ~IsMeta(lines[i])
        /\ Cardinality({i \in 1..k : IsDate(lines[i])}) = 1
        /\ lines[k + 1] = header
        /\ Len(lines) = k + 1 + rows
        /\ \E j \in 1..Len(console) :
              SubSeq(console, j, j + rows) = SubSeq(lines, k + 1, Len(lines))

C6_FileLayout ==
    /\ AtB({"B_saved"}) => WellFormed(files[OUTPUT_FILEPATH_B].lines, HeaderB, Len(table))
    /\ AtC({"C_saved"}) => WellFormed(files[OUTPUT_FILEPATH_C].lines, HeaderC, Len(table))

C6_Witness ==
    /\ AtC({"C_saved"})
    /\ Len(files[OUTPUT_FILEPATH_C].lines) = 10
    /\ IsDate(files[OUTPUT_FILEPATH_C].lines[5])

\* C7: no step of a run of one scenario, successful or failing, changes the
\* file of the other scenario.
C7_ScenariosIndependent ==
    [][ /\ (running = "B" \/ running' = "B") =>
              files'[OUTPUT_FILEPATH_C] = files[OUTPUT_FILEPATH_C]
        /\ (running = "C" \/ running' = "C") =>
              files'[OUTPUT_FILEPATH_B] = files[OUTPUT_FILEPATH_B] ]_vars

C7_Witness ==
    /\ running = "none" /\ status = "OSError" /\ ConsoleOfB
    /\ files[OUTPUT_FILEPATH_B] = File(<<>>)
    /\ \E t \in 0..now : files[OUTPUT_FILEPATH_C] = File(ExpectedFileC(t))

\* C8: a run calls makedirs, open and close at most once each; the saved
\* message is on the console only when the run ended well and the file
\* holds the complete content; a run that ended in OSError printed no such
\* message and is over.
C8_IoErrorEndsRun ==
    /\ calls.makedirs <= 1 /\ calls.open <= 1 /\ calls.close <= 1
    /\ (\E i \in 1..Len(console) : console[i] = SavedLine) =>
          /\ status = "ok" /\ running = "none"
          /\ ConsoleOfB => \E t \in 0..now : files[OUTPUT_FILEPATH_B] = File(ExpectedFileB(data, t))
          /\ ConsoleOfC => \E t \in 0..now : files[OUTPUT_FILEPATH_C] = File(ExpectedFileC(t))
    /\ status = "OSError" => running = "none"

C8_Witness ==
    /\ running = "none" /\ status = "OSError" /\ ConsoleOfC
    /\ \E t \in 0..now : files[OUTPUT_FILEPATH_C] = File(MetadataLinesC(t))

\* C9: with the first row observed, the time since last observation is 0 at
\* an observed row and, at an imputed row, its time minus the time of the
\* latest observed row before it; it grows strictly from one imputed row to
\* the next; an observation at 3 followed by a missing row at 4 gives the
\* imputed value 102 and the duration 1.
LastObserved(q, i) == CHOOSE j \in 1..i : ~q[j].missing /\ \A k \in (j + 1)..i : q[k].missing

C9_TimeSinceLastObservation ==
    pcA = "done" =>
        /\ Len(tslo) = Len(seqA)
        /\ \A i \in 1..Len(seqA) :
              /\ ~seqA[i].missing => tslo[i] = 0
              /\ seqA[i].missing => tslo[i] = seqA[i].t - seqA[LastObserved(seqA, i)].t
              /\ (i < Len(seqA) /\ seqA[i].missing /\ seqA[i + 1].missing) => tslo[i] < tslo[i + 1]
              /\ (i > 1 /\ seqA[i].missing /\ ~seqA[i - 1].missing /\ seqA[i - 1].t = 3
                        /\ seqA[i - 1].hr = 102 /\ seqA[i].t = 4)
                     => tslo[i] = 1 /\ imputed[i].hr = 102

C9_Witness ==
    /\ pcA = "done"
    /\ seqA = <<Observed(0, 95), Observed(3, 102), Missing(4)>>
    /\ tslo = <<0, 0, 1>>

\* C10: per row, P(A|L) is g or 1 - g by the arm, the raw weight is
\* 1 / P(A|L), P(A) is P(A=1) or 1 - P(A=1) by the arm, the stabilized
\* weight is P(A) / P(A|L), and it equals the raw weight times P(A); all in
\* binary64 arithmetic.
RefOneMinus == [x \in Range(LitTab) |-> FSub(FLit(0, 1, 1), x)]
RefInverse == [c \in CondValues |-> FDiv(FLit(0, 1, 1), c)]
RefMarginal == [a \in {0, 1} |-> IF a = 1 THEN FLit(0, 5, 10) ELSE FSub(FLit(0, 1, 1), FLit(0, 5, 10))]
RefQuotient == [m \in Range(MargTab) |-> [c \in CondValues |-> FDiv(m, c)]]
RefProduct == [r \in Range(RawTab) |-> [m \in Range(MargTab) |-> FMul(r, m)]]

C10_WeightFormulas ==
    AtB(AfterStabB) =>
        \A i \in 1..Len(df.A) :
            /\ df.g[i] = LitTab[data[i].g]
            /\ df.cond[i] = IF df.A[i] = 1 THEN df.g[i] ELSE RefOneMinus[df.g[i]]
            /\ df.raw[i] = RefInverse[df.cond[i]]
            /\ df.marg[i] = RefMarginal[df.A[i]]
            /\ df.stab[i] = RefQuotient[df.marg[i]][df.cond[i]]
            /\ df.stab[i] = RefProduct[df.raw[i]][df.marg[i]]

C10_Witness == AtB({"B_sum"}) /\ data = FixedCohort /\ Len(df.stab) = 4

====
